---- MODULE Spec2Model ----
(***************************************************************************)
(* medTracker: the reminder / notification subsystem.                      *)
(*   src/server/notifications.py  NotificationManager                      *)
(*   src/server/app.py            tables, /track, /settings, /subscribe,   *)
(*                                /test-notification                       *)
(***************************************************************************)
EXTENDS Integers, Sequences, FiniteSets, TLC

(***************************************************************************)
(* Bounds of the model.                                                    *)
(***************************************************************************)
MaxSubId == 2          \* rows ever inserted into notification_subscriptions
MaxLogId == 1          \* rows ever inserted into medication_logs
MaxInstant == 5        \* instants the sampled clock passes through
MaxMinute == 16        \* minutes a scheduler is followed for
MaxThreads == 2        \* scheduler threads ever created
MaxReminders == 2      \* reminders counted for a medication after its dose

(***************************************************************************)
(* Program constants.                                                      *)
(***************************************************************************)
GONE == 410
PAYLOAD_TOO_LARGE == 413
TOO_MANY_REQUESTS == 429
DEFAULT_THRESHOLD == 7
DEFAULT_STOCK == 30
ADHERENCE_EVERY == 15
SLEEP_MINUTES == 1
STOCK_AT == 480
DAY == 24 * 60

VARIABLES
    notification_subscriptions, \* table: set of rows
    sub_seq,                    \* AUTOINCREMENT counter of that table
    medication_settings,        \* table: medication_id -> row, or NoRow
    medication_logs,            \* table: set of rows
    log_seq,                    \* AUTOINCREMENT counter of medication_logs
    clock,                      \* now, in minutes since UTC midnight of day 0
    utc_offset,                 \* local time minus UTC, in minutes
    webpush_available,          \* WEBPUSH_AVAILABLE
    last,                       \* the call that has just returned
    added,                      \* endpoint -> keys last accepted for it
    scheduler_running,          \* NotificationManager.scheduler_running
    jobs,                       \* schedule's job list: sequence of jobs
    thread,                     \* the scheduler threads created so far
    stop_called,                \* stop_scheduler has been called
    check                       \* the adherence check that is under way

vars == <<notification_subscriptions, sub_seq, medication_settings,
          medication_logs, log_seq, clock, utc_offset, webpush_available,
          last, added, scheduler_running, jobs, thread, stop_called,
          check>>

dbVars == <<notification_subscriptions, sub_seq, medication_settings,
            medication_logs, log_seq>>
timeVars == <<clock, utc_offset>>
schedVars == <<scheduler_running, jobs, thread, stop_called, check>>

(***************************************************************************)
(* Values.                                                                 *)
(***************************************************************************)
Endpoints == {"e1", "e2"}
P256 == {"p1", "p2"}
Auths == {"a1"}
NoKeys == [p256dh |-> "", auth |-> ""]
Keys == [p256dh : P256, auth : Auths]

\* what /subscribe hands to add_subscription: a well-formed subscription, or
\* a JSON body without "keys" (subscription_data['keys'] raises KeyError)
SubscriptionData == [endpoint : Endpoints, keys : Keys \cup {NoKeys}]

(***************************************************************************)
(* Subscription store: table notification_subscriptions                    *)
(*   (id AUTOINCREMENT, endpoint UNIQUE NOT NULL, p256dh_key, auth_key).   *)
(***************************************************************************)
SubRow(i, e, k) == [id |-> i, endpoint |-> e, p256dh_key |-> k.p256dh,
                    auth_key |-> k.auth]

\* INSERT OR IGNORE: a row whose endpoint is already stored is dropped
InsertOrIgnore(rows, seq, e, k) ==
    IF \E r \in rows : r.endpoint = e
    THEN [rows |-> rows, seq |-> seq]
    ELSE [rows |-> rows \cup {SubRow(seq + 1, e, k)}, seq |-> seq + 1]

\* INSERT OR REPLACE under the UNIQUE constraint on endpoint: the rows that
\* conflict are deleted, then the new row is inserted with a fresh id
InsertOrReplace(rows, seq, e, k) ==
    [rows |-> {r \in rows : r.endpoint # e} \cup {SubRow(seq + 1, e, k)},
     seq |-> seq + 1]

\* add_subscription: [ok, rows, seq]; a storage failure or a KeyError is
\* caught and reported as False, the table untouched
add_subscription(rows, seq, sd, dbfail) ==
    IF dbfail \/ sd.keys = NoKeys
    THEN [ok |-> FALSE, rows |-> rows, seq |-> seq]
    ELSE LET w == InsertOrReplace(rows, seq, sd.endpoint, sd.keys)
         IN  [ok |-> TRUE, rows |-> w.rows, seq |-> w.seq]

RECURSIVE ById(_)
\* the rows of a SELECT without ORDER BY: in rowid order
ById(rows) ==
    IF rows = {} THEN <<>>
    ELSE LET r == CHOOSE x \in rows : \A y \in rows : x.id <= y.id
         IN  <<r>> \o ById(rows \ {r})

\* the dictionary get_all_subscriptions builds from a row
AsSubscription(r) ==
    [endpoint |-> r.endpoint,
     keys |-> [p256dh |-> r.p256dh_key, auth |-> r.auth_key]]

\* get_all_subscriptions: the stored subscriptions; [] on a storage failure
get_all_subscriptions(rows, dbfail) ==
    IF dbfail THEN <<>>
    ELSE [i \in 1..Cardinality(rows) |-> AsSubscription(ById(rows)[i])]

\* a DELETE without its WHERE clause
RemoveEveryRow(rows, endpoints, dbfail) ==
    IF endpoints = <<>> THEN rows
    ELSE IF dbfail THEN rows
    ELSE {}

\* remove_subscriptions: nothing for an empty list; a storage failure is
\* caught and logged
remove_subscriptions(rows, endpoints, dbfail) ==
    IF endpoints = <<>> THEN rows
    ELSE IF dbfail THEN rows
    ELSE {r \in rows : \A i \in 1..Len(endpoints) : r.endpoint # endpoints[i]}

(***************************************************************************)
(* Push delivery.  What webpush() does for one subscription:               *)
(*   exc = "none"               delivered                                  *)
(*   exc = "WebPushException"   with response None (status 0) or the push  *)
(*                              service's response of that status          *)
(*   exc = "Exception"          any other error (connection refused, ...)  *)
(***************************************************************************)
NoResponse == 0
Statuses == {GONE, PAYLOAD_TOO_LARGE, TOO_MANY_REQUESTS, 500}
Outcomes ==
    {[exc |-> "none", status |-> NoResponse],
     [exc |-> "Exception", status |-> NoResponse]}
    \cup [exc : {"WebPushException"}, status : Statuses \cup {NoResponse}]

\* the truth value of ex.response: None is false, and a requests.Response
\* is true exactly when it is ok, that is when its status is below 400
ResponseTruth(status) == status # NoResponse /\ status < 400

\* line 160 without the status test
MarkedAnyFailure(o) == o.exc = "WebPushException"

\* both except clauses appending the endpoint
MarkedUnlessDelivered(o) == o.exc # "none"

\* line 160: whether the except clause appends the endpoint to
\* failed_subscriptions
Marked(o) ==
    /\ o.exc = "WebPushException"
    /\ ResponseTruth(o.status)
    /\ o.status \in {GONE, PAYLOAD_TOO_LARGE, TOO_MANY_REQUESTS}

RECURSIVE SendLoopAborting(_, _, _, _, _, _)
\* the fan-out with one try around the whole loop: the first failed delivery
\* ends it
SendLoopAborting(subs, i, outcome, successful_sends, failed_subscriptions, attempted) ==
    IF i > Len(subs)
    THEN [successful_sends |-> successful_sends,
          failed_subscriptions |-> failed_subscriptions,
          attempted |-> attempted]
    ELSE LET o == outcome[subs[i].endpoint]
         IN  IF o.exc # "none"
             THEN [successful_sends |-> successful_sends,
                   failed_subscriptions |-> failed_subscriptions,
                   attempted |-> Append(attempted, subs[i].endpoint)]
             ELSE SendLoopAborting(subs, i + 1, outcome,
                      successful_sends + 1, failed_subscriptions,
                      Append(attempted, subs[i].endpoint))

RECURSIVE SendLoop(_, _, _, _, _, _)
\* lines 141-164: the fan-out over the loaded subscriptions; attempted lists
\* the endpoints webpush() was called for
SendLoop(subs, i, outcome, successful_sends, failed_subscriptions, attempted) ==
    IF i > Len(subs)
    THEN [successful_sends |-> successful_sends,
          failed_subscriptions |-> failed_subscriptions,
          attempted |-> attempted]
    ELSE LET o == outcome[subs[i].endpoint]
         IN  SendLoop(subs, i + 1, outcome,
                 IF o.exc = "none" THEN successful_sends + 1
                                   ELSE successful_sends,
                 IF Marked(o)
                 THEN Append(failed_subscriptions, subs[i].endpoint)
                 ELSE failed_subscriptions,
                 Append(attempted, subs[i].endpoint))

NoSend(rows) == [result |-> FALSE, rows |-> rows, loaded |-> <<>>,
                 attempted |-> <<>>, successful_sends |-> 0,
                 failed_subscriptions |-> <<>>]

\* line 171 returning successful_sends >= 0
ReturnAtLeastZero(successful_sends) == successful_sends >= 0

\* line 171
SendResult(successful_sends) == successful_sends > 0

\* send_notification without lines 112-114
SendWithoutCapabilityTest(rows, available, outcome, loadfail, rmfail) ==
    LET subscriptions == get_all_subscriptions(rows, loadfail)
    IN  IF subscriptions = <<>>
        THEN [NoSend(rows) EXCEPT !.result = TRUE]
        ELSE LET l == SendLoop(subscriptions, 1, outcome, 0, <<>>, <<>>)
             IN  [result |-> SendResult(l.successful_sends),
                  rows |-> remove_subscriptions(rows,
                               l.failed_subscriptions, rmfail),
                  loaded |-> subscriptions,
                  attempted |-> l.attempted,
                  successful_sends |-> l.successful_sends,
                  failed_subscriptions |-> l.failed_subscriptions]

\* send_notification: the value returned, the table afterwards, and what the
\* call did.  loadfail, rmfail: a storage failure in get_all_subscriptions,
\* in remove_subscriptions
send_notification(rows, available, outcome, loadfail, rmfail) ==
    IF ~available THEN NoSend(rows)
    ELSE LET subscriptions == get_all_subscriptions(rows, loadfail)
         IN  IF subscriptions = <<>>
             THEN [NoSend(rows) EXCEPT !.result = TRUE]
             ELSE LET l == SendLoop(subscriptions, 1, outcome, 0, <<>>, <<>>)
                  IN  [result |-> SendResult(l.successful_sends),
                       rows |-> remove_subscriptions(rows,
                                    l.failed_subscriptions, rmfail),
                       loaded |-> subscriptions,
                       attempted |-> l.attempted,
                       successful_sends |-> l.successful_sends,
                       failed_subscriptions |-> l.failed_subscriptions]

\* whether a send_notification call over rows meets an exception that it
\* catches itself: in get_all_subscriptions (line 106), in webpush() (lines
\* 156, 163)
SendRaises(rows, available, inp) ==
    /\ available
    /\ \/ inp.loadfail
       \/ \E r \in rows : inp.outcome[r.endpoint].exc # "none"

(***************************************************************************)
(* Time.  The instants the clock passes through, in minutes since the UTC  *)
(* midnight of day 0: 08:59, 09:00, 09:01, 23:30 and 00:30 of the next     *)
(* day, and so on every day.                                               *)
(* SQLite's DATE('now') and CURRENT_TIMESTAMP are UTC; datetime.now() is   *)
(* the server's local time.                                                *)
(***************************************************************************)
DayPoints == <<539, 540, 541, 1410, 1470>>
Instant(i) == ((i - 1) \div Len(DayPoints)) * DAY
              + DayPoints[((i - 1) % Len(DayPoints)) + 1]
Offsets == {0, 60}

UtcDate(t) == t \div DAY
LocalDate(t, offset) == (t + offset) \div DAY
LocalTimeOfDay(t, offset) == (t + offset) % DAY

(***************************************************************************)
(* Strings are sequences of characters, NULL is the empty sequence (both   *)
(* are false for Python's "or").                                           *)
(***************************************************************************)
NULL == <<>>
S0900 == <<"0", "9", ":", "0", "0">>
S900 == <<"9", ":", "0", "0">>
S2400 == <<"2", "4", ":", "0", "0">>
Schedules == {S0900, S900, S2400, NULL}

Digits == {"0", "1", "2", "3", "4", "5", "6", "7", "8", "9"}
DigitValue(c) ==
    CASE c = "0" -> 0 [] c = "1" -> 1 [] c = "2" -> 2 [] c = "3" -> 3
      [] c = "4" -> 4 [] c = "5" -> 5 [] c = "6" -> 6 [] c = "7" -> 7
      [] c = "8" -> 8 [] c = "9" -> 9

IsNumber(s) == Len(s) \in {1, 2} /\ \A i \in 1..Len(s) : s[i] \in Digits
NumberValue(s) == IF Len(s) = 1 THEN DigitValue(s[1])
                  ELSE 10 * DigitValue(s[1]) + DigitValue(s[2])

\* datetime.strptime(s, '%H:%M').time(): one or two digits of an hour up to
\* 23, a colon, one or two digits of a minute up to 59; anything else raises
\* ValueError.  The time is given in minutes since midnight.
strptime(s) ==
    LET colons == {i \in 1..Len(s) : s[i] = ":"}
    IN  IF Cardinality(colons) # 1
        THEN [raised |-> TRUE, time |-> 0]
        ELSE LET c == CHOOSE i \in colons : TRUE
                 hh == SubSeq(s, 1, c - 1)
                 mm == SubSeq(s, c + 1, Len(s))
             IN  IF /\ IsNumber(hh) /\ IsNumber(mm)
                    /\ NumberValue(hh) <= 23 /\ NumberValue(mm) <= 59
                 THEN [raised |-> FALSE,
                       time |-> 60 * NumberValue(hh) + NumberValue(mm)]
                 ELSE [raised |-> TRUE, time |-> 0]

\* Python values that are compared on line 228
TimeValue(t) == [type |-> "time", value |-> t]
StrValue(s) == [type |-> "str", value |-> s]

\* a >= b between a datetime.time and a str: both sides return
\* NotImplemented and the comparison raises TypeError
GreaterEqual(a, b) ==
    IF a.type = "time" /\ b.type = "time"
    THEN [raised |-> FALSE, value |-> a.value >= b.value]
    ELSE [raised |-> TRUE, value |-> FALSE]

(***************************************************************************)
(* Medication registry and dose log.                                       *)
(***************************************************************************)
Meds == {"daily_pill", "evening_pill"}
NoRow == [present |-> FALSE, schedule_time |-> NULL,
          reminder_enabled |-> FALSE, low_stock_threshold |-> 0,
          current_stock |-> 0]
SettingsRow(sched, enabled, threshold, stock) ==
    [present |-> TRUE, schedule_time |-> sched, reminder_enabled |-> enabled,
     low_stock_threshold |-> threshold, current_stock |-> stock]

\* init_database: the default medication, with the columns' defaults
InitSettings ==
    [m \in Meds |->
        IF m = "daily_pill"
        THEN SettingsRow(S0900, TRUE, DEFAULT_THRESHOLD, DEFAULT_STOCK)
        ELSE NoRow]

LogRow(i, m, t, notes) ==
    [id |-> i, medication_id |-> m, timestamp |-> t, notes |-> notes]

\* SELECT COUNT(*) ... WHERE medication_id = ? AND DATE(timestamp) = DATE('now')
TodayLogs(logs, m, now) ==
    Cardinality({l \in logs : /\ l.medication_id = m
                              /\ UtcDate(l.timestamp) = UtcDate(now)})

\* should_send_reminder with "return True" for a medication logged today
ShouldSendInverted(logs, m, row, now, offset, dbfail) ==
    ~dbfail /\ TodayLogs(logs, m, now) > 0

\* should_send_reminder that looks at the time only, and compares it with
\* the parsed schedule
ShouldSendByTimeOnly(logs, m, row, now, offset, dbfail) ==
    LET scheduled_time == IF row.schedule_time # NULL
                          THEN row.schedule_time ELSE S0900
    IN  /\ ~dbfail
        /\ ~strptime(scheduled_time).raised
        /\ LocalTimeOfDay(now, offset) >= strptime(scheduled_time).time

\* should_send_reminder that counts the doses of today only, not the
\* reminder_sent rows, and compares the time with the parsed schedule
ShouldSendIgnoringMarkers(logs, m, row, now, offset, dbfail) ==
    LET scheduled_time == IF row.schedule_time # NULL
                          THEN row.schedule_time ELSE S0900
    IN  /\ ~dbfail
        /\ TodayLogs({l \in logs : l.notes # "reminder_sent"}, m, now) = 0
        /\ ~strptime(scheduled_time).raised
        /\ LocalTimeOfDay(now, offset) >= strptime(scheduled_time).time

\* should_send_reminder(medication): every exception is caught and answered
\* with False
should_send_reminder(logs, m, row, now, offset, dbfail) ==
    IF dbfail THEN FALSE
    ELSE IF TodayLogs(logs, m, now) > 0 THEN FALSE
    ELSE LET scheduled_time == IF row.schedule_time # NULL
                               THEN row.schedule_time ELSE S0900
             scheduled_datetime == strptime(scheduled_time)
             current_time == LocalTimeOfDay(now, offset)
             ge == GreaterEqual(TimeValue(current_time),
                                StrValue(scheduled_time))
         IN  IF scheduled_datetime.raised THEN FALSE
             ELSE IF ge.raised THEN FALSE
             ELSE ge.value

\* the orders in which a SELECT without ORDER BY may return the rows S
Orders(S) == {o \in [1..Cardinality(S) -> S] :
                 \A i, j \in 1..Cardinality(S) : o[i] = o[j] => i = j}

Range(f) == {f[i] : i \in DOMAIN f}

\* what the environment decides during one send_notification call
OutcomesFor(rows) == [{r.endpoint : r \in rows} -> Outcomes]
SendInputs(rows) == [outcome : OutcomesFor(rows), loadfail : BOOLEAN,
                     rmfail : BOOLEAN]
\* ... and during one send_medication_reminder call
ReminderInputs(rows) == [outcome : OutcomesFor(rows), loadfail : BOOLEAN,
                         rmfail : BOOLEAN, logfail : BOOLEAN]

\* send_medication_reminder that logs the reminder whatever
\* send_notification returned
RemindAndLogRegardless(rows, logs, seq, available, m, now, inp) ==
    LET s == send_notification(rows, available, inp.outcome, inp.loadfail,
                               inp.rmfail)
    IN  [raised |-> FALSE, rows |-> s.rows,
         logs |-> logs \cup {LogRow(seq + 1, m, now, "reminder_sent")},
         seq |-> seq + 1, success |-> s.result, attempted |-> s.attempted]

\* send_medication_reminder: the reminder goes through send_notification
\* and, when that returns True, a reminder_sent row is inserted; a failure
\* of the insert is not caught here
send_medication_reminder(rows, logs, seq, available, m, now, inp) ==
    LET s == send_notification(rows, available, inp.outcome, inp.loadfail,
                               inp.rmfail)
    IN  IF ~s.result
        THEN [raised |-> FALSE, rows |-> s.rows, logs |-> logs, seq |-> seq,
              success |-> FALSE, attempted |-> s.attempted]
        ELSE IF inp.logfail
        THEN [raised |-> TRUE, rows |-> s.rows, logs |-> logs, seq |-> seq,
              success |-> TRUE, attempted |-> s.attempted]
        ELSE [raised |-> FALSE, rows |-> s.rows,
              logs |-> logs \cup {LogRow(seq + 1, m, now, "reminder_sent")},
              seq |-> seq + 1, success |-> TRUE, attempted |-> s.attempted]

\* the WHERE clause of check_medication_adherence with the test dropped
SelectedAll(row) == row.present

\* the WHERE clause of check_medication_adherence
Selected(row) == row.present /\ row.reminder_enabled

RECURSIVE AdherenceLoop(_, _, _, _, _, _, _, _)
\* lines 200-202: st is [rows, logs, seq, reminded, marked, raised, caught];
\* raised: an exception has left send_medication_reminder, caught: one was
\* caught inside should_send_reminder or send_notification
AdherenceLoop(order, i, st, settings, available, now, offset, env) ==
    IF i > Len(order) THEN st
    ELSE LET m == order[i]
         IN  IF ~should_send_reminder(st.logs, m, settings[m], now, offset,
                                      m \in env.sfail)
             THEN AdherenceLoop(order, i + 1,
                                [st EXCEPT !.caught = @ \/ m \in env.sfail],
                                settings, available, now, offset, env)
             ELSE LET r == send_medication_reminder(st.rows, st.logs, st.seq,
                               available, m, now, env.inp[m])
                      st2 == [rows |-> r.rows, logs |-> r.logs,
                              seq |-> r.seq,
                              reminded |-> Append(st.reminded, m),
                              marked |-> IF r.success /\ ~r.raised
                                         THEN st.marked \cup {m}
                                         ELSE st.marked,
                              raised |-> r.raised,
                              caught |-> st.caught
                                  \/ SendRaises(st.rows, available,
                                                env.inp[m])]
                  IN  IF r.raised THEN st2
                      ELSE AdherenceLoop(order, i + 1, st2, settings,
                                         available, now, offset, env)

\* the WHERE clause of check_stock_levels with current_stock < threshold
LowStockBelow(row) ==
    /\ row.present
    /\ row.current_stock < row.low_stock_threshold
    /\ row.current_stock > 0

\* the WHERE clause of check_stock_levels
LowStock(row) ==
    /\ row.present
    /\ row.current_stock <= row.low_stock_threshold
    /\ row.current_stock > 0

RECURSIVE StockLoop(_, _, _, _, _)
\* lines 320-321: send_low_stock_alert for each selected medication;
\* st is [rows, alerted, delivered, caught]
StockLoop(order, i, st, available, inp) ==
    IF i > Len(order) THEN st
    ELSE LET m == order[i]
             s == send_notification(st.rows, available, inp[m].outcome,
                                    inp[m].loadfail, inp[m].rmfail)
         IN  StockLoop(order, i + 1,
                 [rows |-> s.rows, alerted |-> Append(st.alerted, m),
                  delivered |-> IF s.result /\ s.attempted # <<>>
                                THEN st.delivered \cup {m}
                                ELSE st.delivered,
                  caught |-> st.caught
                      \/ SendRaises(st.rows, available, inp[m])],
                 available, inp)

\* every way one check_medication_adherence call can go, given what the
\* environment decides: qfail (the SELECT fails), sfail (the medications
\* whose should_send_reminder query fails), the order of the rows, and the
\* inputs of each reminder that is sent
AdherenceRunsIn(rows, logs, seq, settings, available, now, offset, qfail, sfail, order) ==
    LET due == {m \in Range(order) :
                   should_send_reminder(logs, m, settings[m], now, offset,
                                        m \in sfail)}
    IN  {[run |-> AdherenceLoop(order, 1,
                      [rows |-> rows, logs |-> logs, seq |-> seq,
                       reminded |-> <<>>, marked |-> {}, raised |-> FALSE,
                       caught |-> FALSE],
                      settings, available, now, offset,
                      [sfail |-> sfail, inp |-> inp]),
          qfail |-> qfail, selected |-> Range(order)] :
            inp \in [due -> ReminderInputs(rows)]}

AdherenceRuns(rows, logs, seq, settings, available, now, offset) ==
    UNION {
      LET selected == IF qfail THEN {}
                      ELSE {m \in Meds : Selected(settings[m])}
      IN  UNION {
            UNION {AdherenceRunsIn(rows, logs, seq, settings, available,
                                   now, offset, qfail, sfail, order) :
                      order \in Orders(selected)} :
              sfail \in SUBSET selected} :
        qfail \in BOOLEAN}

\* every way one check_stock_levels call can go
StockRuns(rows, settings, available) ==
    UNION {
      LET low == IF qfail THEN {} ELSE {m \in Meds : LowStock(settings[m])}
      IN  UNION {
            {[run |-> StockLoop(order, 1,
                          [rows |-> rows, alerted |-> <<>>,
                           delivered |-> {}, caught |-> FALSE],
                          available, inp),
              qfail |-> qfail] :
                inp \in [low -> SendInputs(rows)]} :
              order \in Orders(low)} :
        qfail \in BOOLEAN}

(***************************************************************************)
(* The operations.                                                         *)
(***************************************************************************)
Idle == [op |-> "none"]

\* history: an endpoint whose row has been deleted has no accepted keys
Forget(acc, rows) ==
    [e \in Endpoints |-> IF \E r \in rows : r.endpoint = e THEN acc[e]
                         ELSE NoKeys]

\* POST /subscribe -> add_subscription
Subscribe(sd, dbfail) ==
    /\ sub_seq < MaxSubId
    /\ LET r == add_subscription(notification_subscriptions, sub_seq, sd,
                                 dbfail)
       IN  /\ notification_subscriptions' = r.rows
           /\ sub_seq' = r.seq
           /\ added' = IF r.ok THEN [added EXCEPT ![sd.endpoint] = sd.keys]
                       ELSE added
           /\ last' = [op |-> "add_subscription", arg |-> sd,
                       dbfail |-> dbfail, ok |-> r.ok]
    /\ UNCHANGED <<medication_settings, medication_logs, log_seq, timeVars,
                   webpush_available, schedVars>>

\* POST /test-notification -> send_notification
TestNotification(inp) ==
    /\ LET s == send_notification(notification_subscriptions,
                                  webpush_available, inp.outcome,
                                  inp.loadfail, inp.rmfail)
       IN  /\ notification_subscriptions' = s.rows
           /\ added' = Forget(added, s.rows)
           /\ last' = [op |-> "send_notification", inp |-> inp,
                       before |-> notification_subscriptions,
                       result |-> s.result, loaded |-> s.loaded,
                       attempted |-> s.attempted]
    /\ UNCHANGED <<sub_seq, medication_settings, medication_logs, log_seq,
                   timeVars, webpush_available, schedVars>>

\* the lists remove_subscriptions is called with: up to two endpoints, any
\* of them possibly one that never subscribed
NeverStored == "e9"
EndpointLists ==
    {<<>>} \cup {<<e>> : e \in Endpoints \cup {NeverStored}}
           \cup {<<e, f>> : e \in Endpoints \cup {NeverStored},
                            f \in Endpoints \cup {NeverStored}}

\* a call of remove_subscriptions
RemoveSubscriptions(endpoints, dbfail) ==
    /\ notification_subscriptions' =
          remove_subscriptions(notification_subscriptions, endpoints, dbfail)
    /\ added' = Forget(added, notification_subscriptions')
    /\ last' = [op |-> "remove_subscriptions", endpoints |-> endpoints,
                dbfail |-> dbfail, before |-> notification_subscriptions]
    /\ UNCHANGED <<sub_seq, medication_settings, medication_logs, log_seq,
                   timeVars, webpush_available, schedVars>>

\* /track on a log that keeps the latest entry only
TrackKeepingLatest(med_id, token_ok, dbfail) ==
    /\ log_seq <= MaxLogId
    /\ IF token_ok /\ ~dbfail
       THEN /\ medication_logs' = {LogRow(log_seq + 1, med_id, clock, "")}
            /\ log_seq' = log_seq + 1
       ELSE UNCHANGED <<medication_logs, log_seq>>
    /\ last' = Idle
    /\ UNCHANGED <<notification_subscriptions, sub_seq, added,
                   medication_settings, timeVars, webpush_available,
                   schedVars>>

\* a call of send_medication_reminder for medication m; an exception that
\* leaves it (the INSERT of the marker failed) is the caller's
SendMedicationReminder(m, inp) ==
    /\ LET r == send_medication_reminder(notification_subscriptions,
                     medication_logs, log_seq, webpush_available, m, clock,
                     inp)
       IN  /\ r.seq <= MaxLogId
           /\ notification_subscriptions' = r.rows
           /\ added' = Forget(added, r.rows)
           /\ medication_logs' = r.logs
           /\ log_seq' = r.seq
           /\ last' = [op |-> "send_medication_reminder", m |-> m,
                       loadfail |-> inp.loadfail,
                       delivered |-> \E i \in 1..Len(r.attempted) :
                           inp.outcome[r.attempted[i]].exc = "none",
                       success |-> r.success,
                       raised |-> r.raised, attempted |-> r.attempted,
                       marked |-> r.logs # medication_logs]
    /\ UNCHANGED <<sub_seq, medication_settings, timeVars,
                   webpush_available, schedVars>>

\* GET /track: the dose is logged and the stock decremented in one
\* transaction; a bad token or a storage failure changes nothing
track_medication(med_id, token_ok, dbfail) ==
    /\ log_seq < MaxLogId
    /\ IF token_ok /\ ~dbfail
       THEN /\ medication_logs' = medication_logs \cup
                    {LogRow(log_seq + 1, med_id, clock, "")}
            /\ log_seq' = log_seq + 1
            /\ medication_settings' =
                 IF medication_settings[med_id].present
                 THEN [medication_settings EXCEPT
                          ![med_id].current_stock = @ - 1]
                 ELSE medication_settings
       ELSE UNCHANGED <<medication_logs, log_seq, medication_settings>>
    /\ last' = Idle
    /\ UNCHANGED <<notification_subscriptions, sub_seq, added, timeVars,
                   webpush_available, schedVars>>

\* POST /settings: INSERT OR REPLACE of the medication's row
medication_settings_post(med_id, sched, enabled, threshold, stock, dbfail) ==
    /\ medication_settings' =
         IF dbfail THEN medication_settings
         ELSE [medication_settings EXCEPT
                  ![med_id] = SettingsRow(sched, enabled, threshold, stock)]
    /\ last' = Idle
    /\ UNCHANGED <<notification_subscriptions, sub_seq, added,
                   medication_logs, log_seq, timeVars, webpush_available,
                   schedVars>>

\* the scheduler's job check_medication_adherence
check_medication_adherence ==
    /\ \E r \in AdherenceRuns(notification_subscriptions, medication_logs,
                              log_seq, medication_settings,
                              webpush_available, clock, utc_offset) :
          /\ r.run.seq <= MaxLogId
          /\ notification_subscriptions' = r.run.rows
          /\ added' = Forget(added, r.run.rows)
          /\ medication_logs' = r.run.logs
          /\ log_seq' = r.run.seq
          /\ last' = [op |-> "check_medication_adherence",
                      qfail |-> r.qfail, selected |-> r.selected,
                      reminded |-> r.run.reminded, marked |-> r.run.marked,
                      raised |-> r.run.raised]
    /\ UNCHANGED <<sub_seq, medication_settings, timeVars,
                   webpush_available, schedVars>>

\* the scheduler's job check_stock_levels
check_stock_levels ==
    /\ \E r \in StockRuns(notification_subscriptions, medication_settings,
                          webpush_available) :
          /\ notification_subscriptions' = r.run.rows
          /\ added' = Forget(added, r.run.rows)
          /\ last' = [op |-> "check_stock_levels", qfail |-> r.qfail,
                      alerted |-> r.run.alerted,
                      delivered |-> r.run.delivered]
    /\ UNCHANGED <<sub_seq, medication_settings, medication_logs,
                   log_seq, timeVars, webpush_available, schedVars>>

\* time passes to the next instant
NextInstant ==
    /\ \E i \in 1..MaxInstant :
          /\ Instant(i) > clock
          /\ \A j \in 1..(i - 1) : Instant(j) <= clock
          /\ clock' = Instant(i)
    /\ last' = Idle
    /\ UNCHANGED <<dbVars, added, utc_offset, webpush_available, schedVars>>

(***************************************************************************)
(* check_medication_adherence step by step, as the requests that arrive    *)
(* while it runs see it: the SELECT of the medications, then for each of   *)
(* them should_send_reminder, and after it the reminder or nothing.        *)
(* check holds the position and the locals of the call: the medications    *)
(* fetched, the index of the one at hand, whether the count of today's     *)
(* logs was read, that count and what should_send_reminder returned.  Two  *)
(* fields record history: after[m] counts the reminders of m emitted while *)
(* a dose of m for the current day was in the log, raced that a dose was   *)
(* committed between the count and the step that follows it.               *)
(***************************************************************************)
NoCheck == [pc |-> "idle", medications |-> <<>>, i |-> 0, read |-> FALSE,
            count |-> 0, due |-> FALSE, after |-> [m \in Meds |-> 0],
            raced |-> FALSE]

\* a row that /track has inserted for m carries the current day
DoseToday(logs, m, now) ==
    \E l \in logs : /\ l.medication_id = m
                     /\ l.notes = ""
                     /\ UtcDate(l.timestamp) = UtcDate(now)

\* lines 193-198: the medications are fetched; a failure ends the call
CheckBegin(qfail) ==
    /\ check.pc = "idle"
    /\ \E order \in Orders(IF qfail THEN {}
                            ELSE {m \in Meds :
                                     Selected(medication_settings[m])}) :
          check' = IF order = <<>> THEN check
                   ELSE [check EXCEPT !.pc = "due", !.medications = order,
                                      !.i = 1]
    /\ last' = Idle
    /\ UNCHANGED <<dbVars, added, timeVars, webpush_available,
                   scheduler_running, jobs, thread, stop_called>>

\* line 201: should_send_reminder for the medication at hand
CheckDue(dbfail) ==
    /\ check.pc = "due"
    /\ LET m == check.medications[check.i]
       IN  check' = [check EXCEPT
                        !.pc = "act",
                        !.read = ~dbfail,
                        !.count = IF dbfail THEN 0
                                  ELSE TodayLogs(medication_logs, m, clock),
                        !.due = should_send_reminder(medication_logs, m,
                                    medication_settings[m], clock,
                                    utc_offset, dbfail)]
    /\ last' = Idle
    /\ UNCHANGED <<dbVars, added, timeVars, webpush_available,
                   scheduler_running, jobs, thread, stop_called>>

\* the call after the step for the medication at hand: on to the next
\* medication, or out of the loop at its end or with an exception
CheckNext(raised, reminded) ==
    LET m == check.medications[check.i]
        dose == DoseToday(medication_logs, m, clock)
        out == raised \/ check.i = Len(check.medications)
    IN  [pc |-> IF out THEN "idle" ELSE "due",
         medications |-> IF out THEN <<>> ELSE check.medications,
         i |-> IF out THEN 0 ELSE check.i + 1,
         read |-> FALSE, count |-> 0, due |-> FALSE,
         after |-> [check.after EXCEPT
                       ![m] = IF reminded /\ dose THEN @ + 1 ELSE @],
         raced |-> check.raced \/ (check.read /\ check.count = 0 /\ dose)]

\* what the environment decides in a step that sends nothing
NoInput == [outcome |-> <<>>, loadfail |-> FALSE, rmfail |-> FALSE,
            logfail |-> FALSE]
CheckInputs == IF check.pc = "act" /\ check.due
               THEN ReminderInputs(notification_subscriptions)
               ELSE {NoInput}

\* line 202: send_medication_reminder when should_send_reminder said so
CheckAct(inp) ==
    /\ check.pc = "act"
    /\ LET m == check.medications[check.i]
       IN  IF check.due
           THEN LET r == send_medication_reminder(
                             notification_subscriptions, medication_logs,
                             log_seq, webpush_available, m, clock, inp)
                IN  /\ r.seq <= MaxLogId
                    /\ DoseToday(medication_logs, m, clock)
                         => check.after[m] < MaxReminders
                    /\ notification_subscriptions' = r.rows
                    /\ added' = Forget(added, r.rows)
                    /\ medication_logs' = r.logs
                    /\ log_seq' = r.seq
                    /\ check' = CheckNext(r.raised, TRUE)
           ELSE /\ check' = CheckNext(FALSE, FALSE)
                /\ UNCHANGED <<notification_subscriptions, added,
                               medication_logs, log_seq>>
    /\ last' = Idle
    /\ UNCHANGED <<sub_seq, medication_settings, timeVars,
                   webpush_available, scheduler_running, jobs, thread,
                   stop_called>>

(***************************************************************************)
(* The scheduler.  schedule keeps one process-wide list of jobs; a job is  *)
(* the function to call and the time of its next run.  Times are minutes   *)
(* since the UTC midnight of day 0; schedule works in local time.          *)
(***************************************************************************)
\* the first 08:00 (local) after now
NextDailyRun(now, offset) ==
    LET tod == LocalTimeOfDay(now, offset)
    IN  IF tod < STOCK_AT THEN now + (STOCK_AT - tod)
        ELSE now + (DAY - tod) + STOCK_AT

\* schedule.every(15).minutes.do(self.check_medication_adherence)
AdherenceJob(now) ==
    [fn |-> "check_medication_adherence", next_run |-> now + ADHERENCE_EVERY]
\* schedule.every().day.at("08:00").do(self.check_stock_levels)
StockJob(now, offset) ==
    [fn |-> "check_stock_levels", next_run |-> NextDailyRun(now, offset)]

\* a thread that threading.Thread(...).start() has created: it has not yet
\* executed line 296.  stop_asleep and invoked_at_stop record a
\* stop_scheduler call made while the thread slept, failed that an
\* exception was raised inside a callback the thread has run.
NewThread == [pc |-> "new", wake |-> 0, invoked |-> 0,
              stop_asleep |-> FALSE, invoked_at_stop |-> 0,
              failed |-> FALSE]

\* start_scheduler: nothing when the flag is set; otherwise the two jobs are
\* registered and a thread is created.  The flag is left as it is: it is
\* the thread that sets it, on line 296.
start_scheduler(running, js, ths, now, offset) ==
    IF running THEN [running |-> running, jobs |-> js, thread |-> ths]
    ELSE [running |-> running,
          jobs |-> js \o <<AdherenceJob(now), StockJob(now, offset)>>,
          thread |-> Append(ths, NewThread)]

\* the loop of run_scheduler as "while True"
LoopAlways(running) == "run"

\* line 299: where "while self.scheduler_running" leads
LoopNext(running) == IF running THEN "run" ELSE "done"

RECURSIVE ByNextRun(_, _)
\* sorted(runnable_jobs): the indices in S by next_run, ties in list order
ByNextRun(js, S) ==
    IF S = {} THEN <<>>
    ELSE LET j == CHOOSE x \in S : \A y \in S :
                     \/ js[x].next_run < js[y].next_run
                     \/ js[x].next_run = js[y].next_run /\ x <= y
         IN  <<j>> \o ByNextRun(js, S \ {j})

\* job.should_run
Runnable(js, now) == {j \in 1..Len(js) : js[j].next_run <= now}

\* the next run of a job that has just run
Rescheduled(job, now, offset) ==
    IF job.fn = "check_medication_adherence" THEN AdherenceJob(now)
    ELSE StockJob(now, offset)

\* a callback without its try: what its body raised leaves it
PropagatesRaised(raised) == raised

\* lines 204-205 and 323-324: "except Exception" takes whatever the body of
\* the callback raised and logs it; nothing leaves the callback
Propagates(raised) == FALSE

\* a round of run_pending before its first job: the tables, the jobs called
\* so far, those that returned, whether an exception was raised inside a
\* callback, whether one has left a callback
NoJobRun(rows, logs, seq) ==
    [rows |-> rows, logs |-> logs, seq |-> seq, invoked |-> <<>>,
     returned |-> {}, raised |-> FALSE, escaped |-> FALSE]

\* Job.run of job j: the callback has been called; unless an exception
\* leaves it, the job is rescheduled.  raised: an exception reached the
\* callback's except clause, caught: one was caught further inside
JobDone(d, j, rows, logs, seq, raised, caught) ==
    [rows |-> rows, logs |-> logs, seq |-> seq,
     invoked |-> Append(d.invoked, j),
     returned |-> IF Propagates(raised) THEN d.returned
                  ELSE d.returned \cup {j},
     raised |-> d.raised \/ raised \/ caught,
     escaped |-> Propagates(raised)]

\* the round after one run of job j, in every way the run can go; an
\* exception that has left a callback has left run_pending too
JobRuns(d, j, fn, settings, available, now, offset) ==
    IF d.escaped THEN {d}
    ELSE IF fn = "check_medication_adherence"
    THEN {JobDone(d, j, r.run.rows, r.run.logs, r.run.seq,
                  r.qfail \/ r.run.raised, r.run.caught) :
             r \in AdherenceRuns(d.rows, d.logs, d.seq, settings,
                                 available, now, offset)}
    ELSE {JobDone(d, j, r.run.rows, d.logs, d.seq, r.qfail, r.run.caught) :
             r \in StockRuns(d.rows, settings, available)}

RECURSIVE RunJobs(_, _, _, _, _, _, _, _)
\* schedule.run_pending(): the runnable jobs are run one after the other
RunJobs(ds, js, order, i, settings, available, now, offset) ==
    IF i > Len(order) THEN ds
    ELSE RunJobs(UNION {JobRuns(d, order[i], js[order[i]].fn, settings,
                                available, now, offset) : d \in ds},
                 js, order, i + 1, settings, available, now, offset)

\* a server that is started at 07:50 UTC of day 0
StartMinute == 7 * 60 + 50

\* a second or later call of start_scheduler
StartScheduler ==
    /\ scheduler_running \/ Len(thread) < MaxThreads
    /\ LET r == start_scheduler(scheduler_running, jobs, thread, clock,
                                utc_offset)
       IN  /\ scheduler_running' = r.running
           /\ jobs' = r.jobs
           /\ thread' = r.thread
    /\ last' = Idle
    /\ UNCHANGED <<dbVars, added, timeVars, webpush_available, stop_called,
                   check>>

\* stop_scheduler
StopScheduler ==
    /\ scheduler_running' = FALSE
    /\ stop_called' = TRUE
    /\ thread' = [t \in DOMAIN thread |->
                    IF thread[t].pc = "sleep"
                    THEN [thread[t] EXCEPT !.stop_asleep = TRUE,
                                           !.invoked_at_stop = thread[t].invoked]
                    ELSE thread[t]]
    /\ last' = Idle
    /\ UNCHANGED <<dbVars, added, timeVars, webpush_available, jobs, check>>

\* run_scheduler, line 296: the thread sets the flag
ThreadBegin(t) ==
    /\ thread[t].pc = "new"
    /\ scheduler_running' = TRUE
    /\ thread' = [thread EXCEPT ![t].pc = "test"]
    /\ last' = Idle
    /\ UNCHANGED <<dbVars, added, timeVars, webpush_available, jobs,
                   stop_called, check>>

\* line 299: the loop's test
LoopTest(t) ==
    /\ thread[t].pc = "test"
    /\ thread' = [thread EXCEPT ![t].pc = LoopNext(scheduler_running)]
    /\ last' = Idle
    /\ UNCHANGED <<dbVars, added, timeVars, webpush_available,
                   scheduler_running, jobs, stop_called, check>>

\* lines 300-305: run_pending, with everything the jobs do, then the thread
\* sleeps for a minute: on line 302, or on line 305 when an exception has
\* left run_pending
RunPending(t) ==
    /\ thread[t].pc = "run"
    /\ LET order == ByNextRun(jobs, Runnable(jobs, clock))
       IN  \E d \in RunJobs({NoJobRun(notification_subscriptions,
                                      medication_logs, log_seq)},
                             jobs, order, 1, medication_settings,
                             webpush_available, clock, utc_offset) :
              /\ d.seq <= MaxLogId
              /\ notification_subscriptions' = d.rows
              /\ added' = Forget(added, d.rows)
              /\ medication_logs' = d.logs
              /\ log_seq' = d.seq
              /\ jobs' = [j \in DOMAIN jobs |->
                            IF j \in d.returned
                            THEN Rescheduled(jobs[j], clock, utc_offset)
                            ELSE jobs[j]]
              /\ thread' = [thread EXCEPT
                               ![t].pc = "sleep",
                               ![t].wake = clock + SLEEP_MINUTES,
                               ![t].invoked = @ + Len(d.invoked),
                               ![t].failed = @ \/ d.raised]
              /\ last' = [op |-> "run_pending", t |-> t,
                          invoked |-> d.invoked, raised |-> d.raised,
                          failed_before |-> thread[t].failed]
    /\ UNCHANGED <<sub_seq, medication_settings, timeVars,
                   webpush_available, scheduler_running, stop_called, check>>

\* time.sleep(60) returns
Wake(t) ==
    /\ thread[t].pc = "sleep"
    /\ clock >= thread[t].wake
    /\ thread' = [thread EXCEPT ![t].pc = "test"]
    /\ last' = Idle
    /\ UNCHANGED <<dbVars, added, timeVars, webpush_available,
                   scheduler_running, jobs, stop_called, check>>

\* a minute passes
MinutePasses ==
    /\ clock < StartMinute + MaxMinute
    /\ clock' = clock + 1
    /\ last' = Idle
    /\ UNCHANGED <<dbVars, added, utc_offset, webpush_available, schedVars>>

(***************************************************************************)
(* Specifications.                                                         *)
(***************************************************************************)
Thresholds == {1, 2}
Stocks == {0, 1, 2, 3}

\* NotificationManager.__init__: the flag is cleared, then start_scheduler
\* is called
InitSched ==
    /\ LET r == start_scheduler(FALSE, <<>>, <<>>, clock, utc_offset)
       IN  /\ scheduler_running = r.running
           /\ jobs = r.jobs
           /\ thread = r.thread
    /\ stop_called = FALSE
    /\ check = NoCheck

\* after init_database and NotificationManager.__init__
InitDb ==
    /\ notification_subscriptions = {}
    /\ sub_seq = 0
    /\ medication_settings = InitSettings
    /\ medication_logs = {}
    /\ log_seq = 0
    /\ added = [e \in Endpoints |-> NoKeys]
    /\ last = Idle

\* ... and after the browsers of Subscribers, none or one, have subscribed
InitSubscribed(Subscribers) ==
    /\ \E n \in Subscribers :
          /\ sub_seq = n
          /\ notification_subscriptions =
               {SubRow(i, "e1", [p256dh |-> "p1", auth |-> "a1"]) :
                   i \in 1..n}
          /\ added = [e \in Endpoints |->
                        IF e = "e1" /\ n = 1
                        THEN [p256dh |-> "p1", auth |-> "a1"] ELSE NoKeys]
    /\ medication_settings = InitSettings
    /\ medication_logs = {}
    /\ log_seq = 0
    /\ last = Idle

\* the push dispatcher and the subscription store
Init ==
    /\ InitDb
    /\ clock = Instant(1)
    /\ utc_offset = 0
    /\ InitSched
    /\ webpush_available \in BOOLEAN

Next ==
    \/ \E sd \in SubscriptionData, dbfail \in BOOLEAN : Subscribe(sd, dbfail)
    \/ \E inp \in SendInputs(notification_subscriptions) :
          TestNotification(inp)

Spec == Init /\ [][Next]_vars

\* the subscription store by itself
NextStore ==
    \/ \E sd \in SubscriptionData, dbfail \in BOOLEAN : Subscribe(sd, dbfail)
    \/ \E endpoints \in EndpointLists, dbfail \in BOOLEAN :
          RemoveSubscriptions(endpoints, dbfail)

SpecStore == Init /\ [][NextStore]_vars

\* the adherence evaluator
InitReminder ==
    /\ InitSubscribed({1})
    /\ clock = Instant(1)
    /\ utc_offset \in Offsets
    /\ InitSched
    /\ webpush_available = TRUE

NextReminder ==
    \/ NextInstant
    \/ \E m \in Meds, token_ok, dbfail \in BOOLEAN :
          track_medication(m, token_ok, dbfail)
    \/ \E m \in Meds, sched \in Schedules, enabled, dbfail \in BOOLEAN :
          medication_settings_post(m, sched, enabled, DEFAULT_THRESHOLD,
                                   DEFAULT_STOCK, dbfail)
    \/ check_medication_adherence

SpecReminder == InitReminder /\ [][NextReminder]_vars

\* the adherence check, step by step, among the requests
NextRace ==
    \/ NextInstant
    \/ \E m \in Meds, token_ok, dbfail \in BOOLEAN :
          track_medication(m, token_ok, dbfail)
    \/ \E qfail \in BOOLEAN : CheckBegin(qfail)
    \/ \E dbfail \in BOOLEAN : CheckDue(dbfail)
    \/ \E inp \in CheckInputs : CheckAct(inp)

SpecRace == InitReminder /\ [][NextRace]_vars

\* the reminder and its marker: send_medication_reminder called for a
\* medication, with none or one browser subscribed, and the adherence
\* checks that follow
InitMarker ==
    /\ InitSubscribed({0, 1})
    /\ clock = Instant(1)
    /\ utc_offset = 60
    /\ InitSched
    /\ webpush_available = TRUE

NextMarker ==
    \/ NextInstant
    \/ \E m \in Meds, inp \in ReminderInputs(notification_subscriptions) :
          SendMedicationReminder(m, inp)
    \/ check_medication_adherence

SpecMarker == InitMarker /\ [][NextMarker]_vars

\* the stock evaluator
InitStock ==
    /\ InitSubscribed({0, 1})
    /\ clock = Instant(1)
    /\ utc_offset = 0
    /\ InitSched
    /\ webpush_available = TRUE

NextStock ==
    \/ \E m \in Meds, token_ok, dbfail \in BOOLEAN :
          track_medication(m, token_ok, dbfail)
    \/ \E m \in Meds, threshold \in Thresholds, stock \in Stocks,
          dbfail \in BOOLEAN :
          medication_settings_post(m, S0900, TRUE, threshold, stock, dbfail)
    \/ check_stock_levels

SpecStock == InitStock /\ [][NextStock]_vars

\* the scheduler of a server: the thread that __init__ has created, and
\* stop_scheduler
InitLifecycle ==
    /\ InitDb
    /\ clock = StartMinute
    /\ utc_offset = 0
    /\ InitSched
    /\ webpush_available = TRUE

NextLifecycle ==
    \/ MinutePasses
    \/ StopScheduler
    \/ \E t \in DOMAIN thread : ThreadBegin(t)
    \/ \E t \in DOMAIN thread : LoopTest(t)
    \/ \E t \in DOMAIN thread : RunPending(t)
    \/ \E t \in DOMAIN thread : Wake(t)

SpecLifecycle == InitLifecycle /\ [][NextLifecycle]_vars

\* ... where the thread, once created, gets to run, sleeps end and time
\* passes; nothing obliges anybody to call stop_scheduler
SpecLifecycleFair ==
    /\ SpecLifecycle
    /\ WF_vars(MinutePasses)
    /\ WF_vars(\E t \in DOMAIN thread : ThreadBegin(t))
    /\ WF_vars(\E t \in DOMAIN thread : LoopTest(t))
    /\ WF_vars(\E t \in DOMAIN thread : RunPending(t))
    /\ WF_vars(\E t \in DOMAIN thread : Wake(t))

\* ... with further calls of start_scheduler, for a server that is started
\* at 07:58
LateStartMinute == 7 * 60 + 58
InitLate ==
    /\ InitDb
    /\ clock = LateStartMinute
    /\ utc_offset = 0
    /\ InitSched
    /\ webpush_available = TRUE

NextSched ==
    \/ NextLifecycle
    \/ StartScheduler

SpecSched == InitLate /\ [][NextSched]_vars

\* the scheduler of a server restarted on the database of an earlier run:
\* a browser has subscribed and the default medication may be down to its
\* threshold
InitLoop ==
    /\ notification_subscriptions =
          {SubRow(1, "e1", [p256dh |-> "p1", auth |-> "a1"])}
    /\ sub_seq = 1
    /\ added = [e \in Endpoints |->
                  IF e = "e1" THEN [p256dh |-> "p1", auth |-> "a1"]
                  ELSE NoKeys]
    /\ medication_settings \in
          {InitSettings,
           [InitSettings EXCEPT
               !["daily_pill"].current_stock = DEFAULT_THRESHOLD]}
    /\ medication_logs = {}
    /\ log_seq = 0
    /\ last = Idle
    /\ clock = StartMinute
    /\ utc_offset = 0
    /\ InitSched
    /\ webpush_available = TRUE

SpecLoop == InitLoop /\ [][NextLifecycle]_vars

\* the operations that write to the database together, on that database:
\* the dose recording, the two checks with the notifications they send, and
\* the subscription store
NextCore ==
    \/ \E m \in Meds, token_ok, dbfail \in BOOLEAN :
          track_medication(m, token_ok, dbfail)
    \/ check_medication_adherence
    \/ check_stock_levels
    \/ \E sd \in SubscriptionData, dbfail \in BOOLEAN : Subscribe(sd, dbfail)
    \/ \E endpoints \in EndpointLists, dbfail \in BOOLEAN :
          RemoveSubscriptions(endpoints, dbfail)

SpecCore == InitLoop /\ [][NextCore]_vars

(***************************************************************************)
(* The claims.                                                             *)
(***************************************************************************)
\* the schedule the evaluator works with: schedule_time, or 09:00 for NULL
ScheduleOf(m) == IF medication_settings[m].schedule_time # NULL
                 THEN medication_settings[m].schedule_time ELSE S0900

\* a dose log entry of m carries the current day, UTC or local
LoggedToday(m) ==
    \E l \in medication_logs :
        /\ l.medication_id = m
        /\ \/ UtcDate(l.timestamp) = UtcDate(clock)
           \/ LocalDate(l.timestamp, utc_offset) = LocalDate(clock, utc_offset)

PastSchedule(m) ==
    /\ ~strptime(ScheduleOf(m)).raised
    /\ LocalTimeOfDay(clock, utc_offset) >= strptime(ScheduleOf(m)).time

\* C1: for a medication with reminder_enabled and no dose log entry on the
\* current day, should_send_reminder is true when the local time of day is
\* at or past schedule_time and false when it is before it.
C1_DueAtOrPastSchedule ==
    \A m \in Meds :
        (/\ medication_settings[m].present
         /\ medication_settings[m].reminder_enabled
         /\ ~LoggedToday(m)
         /\ ~strptime(ScheduleOf(m)).raised)
        => (should_send_reminder(medication_logs, m, medication_settings[m],
                                 clock, utc_offset, FALSE)
            <=> PastSchedule(m))

\* C2: whenever a dose log entry of a medication carries the current day,
\* should_send_reminder is false for it, whatever the schedule and the time,
\* and whether or not the query succeeds.
C2_NotDueWhenLoggedToday ==
    \A m \in Meds, dbfail \in BOOLEAN :
        LoggedToday(m)
        => ~should_send_reminder(medication_logs, m, medication_settings[m],
                                 clock, utc_offset, dbfail)

\* C2, its case: an enabled medication past its schedule, logged today, has
\* been through an adherence check
C2_Witness ==
    \E m \in Meds :
        /\ last.op = "check_medication_adherence"
        /\ m \in last.selected
        /\ LoggedToday(m)
        /\ PastSchedule(m)

\* C3: a medication whose reminder_enabled is false is not due, is not
\* selected by the adherence check and gets no reminder from it, even past
\* its schedule with no dose logged today.
C3_DisabledNeverReminded ==
    \A m \in Meds :
        (medication_settings[m].present
         /\ ~medication_settings[m].reminder_enabled)
        => /\ \A dbfail \in BOOLEAN :
                ~should_send_reminder(medication_logs, m,
                     medication_settings[m], clock, utc_offset, dbfail)
           /\ last.op = "check_medication_adherence"
                => /\ m \notin last.selected
                   /\ \A i \in 1..Len(last.reminded) : last.reminded[i] # m

\* C3, its case: an adherence check has read the registry while a disabled
\* medication was past its schedule with nothing logged today
C3_Witness ==
    \E m \in Meds :
        /\ last.op = "check_medication_adherence"
        /\ ~last.qfail
        /\ medication_settings[m].present
        /\ ~medication_settings[m].reminder_enabled
        /\ ~LoggedToday(m)
        /\ PastSchedule(m)

\* the statuses the claims call terminal
Terminal(o) == /\ o.exc = "WebPushException"
               /\ o.status \in {GONE, PAYLOAD_TOO_LARGE, TOO_MANY_REQUESTS}
Listed(e) ==
    \E i \in 1..Len(get_all_subscriptions(notification_subscriptions, FALSE)) :
        get_all_subscriptions(notification_subscriptions, FALSE)[i].endpoint
            = e

\* C4: when a delivery fails with a terminal status (410, 413, 429), the
\* subscription's endpoint is absent from get_all_subscriptions once
\* send_notification has returned (stated for the calls whose DELETE did not
\* hit a storage failure).
C4_TerminalFailureRemoved ==
    (last.op = "send_notification" /\ ~last.inp.rmfail)
    => \A i \in 1..Len(last.loaded) :
          Terminal(last.inp.outcome[last.loaded[i].endpoint])
          => ~Listed(last.loaded[i].endpoint)

\* C5: when a delivery fails with anything but a terminal status, the
\* subscription is still listed, with the same keys, once send_notification
\* has returned.
C5_TransientFailureKept ==
    last.op = "send_notification"
    => \A i \in 1..Len(last.loaded) :
          LET o == last.inp.outcome[last.loaded[i].endpoint]
              now == get_all_subscriptions(notification_subscriptions, FALSE)
          IN  (o.exc # "none" /\ ~Terminal(o))
              => \E j \in 1..Len(now) : now[j] = last.loaded[i]

\* C5, its case: a send in which one delivery was answered with a 500 and
\* another failed without a response
C5_Witness ==
    /\ last.op = "send_notification"
    /\ Len(last.loaded) = 2
    /\ \E i, j \in 1..2 :
          /\ last.inp.outcome[last.loaded[i].endpoint]
               = [exc |-> "WebPushException", status |-> 500]
          /\ last.inp.outcome[last.loaded[j].endpoint].exc = "Exception"

\* C6: with the push capability available, send_notification returns true
\* exactly when it had no subscription to try, and then it attempts no
\* delivery, or when at least one delivery succeeded.
C6_ResultIffEmptyOrDelivered ==
    (last.op = "send_notification" /\ webpush_available)
    => /\ last.result
            <=> \/ last.loaded = <<>>
                \/ \E i \in 1..Len(last.loaded) :
                      last.inp.outcome[last.loaded[i].endpoint].exc = "none"
       /\ last.loaded = <<>> => last.attempted = <<>>

\* C6, its case: two subscriptions, no delivery succeeded, false returned
C6_Witness ==
    /\ last.op = "send_notification"
    /\ webpush_available
    /\ Len(last.loaded) = 2
    /\ Len(last.attempted) = 2
    /\ ~last.result

\* C7: after any add_subscription calls the table holds one row for each
\* endpoint that was accepted, with the keys of the latest accepted call,
\* and none for any other; a well-formed subscription is accepted, stored or
\* not before, unless storage fails.
C7_UpsertKeepsOneRow ==
    /\ \A e \in Endpoints :
          LET rs == {r \in notification_subscriptions : r.endpoint = e}
          IN  /\ Cardinality(rs) <= 1
              /\ added[e] = NoKeys => rs = {}
              /\ added[e] # NoKeys
                   => \E r \in rs : /\ r.p256dh_key = added[e].p256dh
                                    /\ r.auth_key = added[e].auth
    /\ (last.op = "add_subscription" /\ ~last.dbfail
        /\ last.arg.keys # NoKeys) => last.ok

\* C7, its case: an endpoint has subscribed again, with other keys
C7_Witness ==
    /\ last.op = "add_subscription"
    /\ last.ok
    /\ last.arg.keys.p256dh = "p2"
    /\ notification_subscriptions
         = {SubRow(2, last.arg.endpoint, last.arg.keys)}

\* C8: check_stock_levels alerts exactly the medications with
\* 0 < current_stock <= low_stock_threshold, each once (none when its query
\* fails).
C8_LowStockExactly ==
    last.op = "check_stock_levels"
    => /\ Range(last.alerted)
            = IF last.qfail THEN {}
              ELSE {m \in Meds :
                      /\ medication_settings[m].present
                      /\ 0 < medication_settings[m].current_stock
                      /\ medication_settings[m].current_stock
                           <= medication_settings[m].low_stock_threshold}
       /\ Len(last.alerted) = Cardinality(Range(last.alerted))

\* C8, its case: a check alerted a medication whose stock equals its
\* threshold and passed over one whose stock is 0
C8_Witness ==
    /\ last.op = "check_stock_levels"
    /\ \E m, n \in Meds :
          /\ m \in Range(last.alerted)
          /\ medication_settings[m].current_stock
               = medication_settings[m].low_stock_threshold
          /\ medication_settings[n].present
          /\ medication_settings[n].current_stock = 0
          /\ n \notin Range(last.alerted)

\* C9: when stop_scheduler is called while the loop sleeps, the loop, once
\* awake, sees the flag cleared and exits: it does not call run_pending, so
\* neither check, again.
C9_StopAsleepExits ==
    \A t \in DOMAIN thread :
        thread[t].stop_asleep
        => /\ thread[t].pc \in {"sleep", "test", "done"}
           /\ thread[t].invoked = thread[t].invoked_at_stop

\* C9, its case: a loop that had run both checks, was stopped in its sleep,
\* has woken and has exited
C9_Witness ==
    \E t \in DOMAIN thread :
        /\ thread[t].stop_asleep
        /\ thread[t].pc = "done"
        /\ thread[t].invoked_at_stop >= 2

\* C10: start_scheduler on a scheduler that has been started and not
\* stopped does nothing: there is one loop thread and each of the two jobs
\* is registered once, however the call falls among the steps of the thread.
C10_SecondStartDoesNothing ==
    ~stop_called
    => /\ Len(thread) = 1
       /\ Len(jobs) = 2
       /\ \A i, j \in DOMAIN jobs : jobs[i].fn = jobs[j].fn => i = j

\* C11: an exception raised inside the adherence check or the stock check,
\* at its query, in should_send_reminder or while a notification is sent,
\* does not end the loop: run_pending returns, every job that was due has
\* been called and is scheduled again, the thread sleeps its minute, and
\* unless stop_scheduler is called the loop goes on.
C11_LoopSurvivesFailure ==
    /\ (last.op = "run_pending" /\ last.raised)
       => /\ thread[last.t].pc = "sleep"
          /\ thread[last.t].wake = clock + SLEEP_MINUTES
          /\ Runnable(jobs, clock) = {}
          /\ \A i \in 1..Len(last.invoked) :
                jobs[last.invoked[i]].next_run > clock
    /\ \A t \in DOMAIN thread :
          (thread[t].failed /\ ~stop_called)
          => thread[t].pc \in {"test", "run", "sleep"}

\* C11, its case: the loop has called the next check after a round in which
\* a check had raised
C11_Witness ==
    /\ last.op = "run_pending"
    /\ last.failed_before
    /\ last.invoked # <<>>
    /\ jobs[last.invoked[1]].fn = "check_medication_adherence"

\* C12: in one send_notification call webpush() is called once for each
\* subscription the call loaded, in the order loaded, whatever happened to
\* the other deliveries; none is called twice.
C12_OneAttemptEach ==
    last.op = "send_notification"
    => /\ Len(last.attempted) = Len(last.loaded)
       /\ \A i \in 1..Len(last.loaded) :
             last.attempted[i] = last.loaded[i].endpoint
       /\ \A i, j \in 1..Len(last.attempted) :
             last.attempted[i] = last.attempted[j] => i = j

\* C12, its case: the first of two deliveries failed, with a terminal
\* status, a transient one or an unexpected error, and the second was made
C12_Witness ==
    /\ last.op = "send_notification"
    /\ Len(last.loaded) = 2
    /\ Len(last.attempted) = 2
    /\ last.inp.outcome[last.loaded[1].endpoint].exc # "none"
    /\ last.inp.outcome[last.loaded[2].endpoint].exc = "none"

\* C13: without the push capability send_notification returns false, calls
\* webpush() for nobody, does not even load the subscriptions and leaves
\* the table as it is, whether the table is empty or not.
C13_UnavailableReturnsFalse ==
    (last.op = "send_notification" /\ ~webpush_available)
    => /\ ~last.result
       /\ last.attempted = <<>>
       /\ last.loaded = <<>>
       /\ notification_subscriptions = last.before

\* C13, its case: a send without the capability over a table of two
\* subscriptions whose deliveries would have succeeded
C13_Witness ==
    /\ last.op = "send_notification"
    /\ ~webpush_available
    /\ Cardinality(last.before) = 2
    /\ ~last.inp.loadfail
    /\ \A r \in last.before : last.inp.outcome[r.endpoint].exc = "none"

\* the dose log as the adherence check that has just returned found it: the
\* rows it inserted itself carry the latest ids
LogsBefore ==
    {l \in medication_logs : l.id <= log_seq - Cardinality(last.marked)}

\* a reminder of m was due when that check began: m is enabled, the local
\* time of day is at or past its schedule and the log had no entry of m
\* for the current day, UTC or local
DueBefore(m) ==
    /\ medication_settings[m].present
    /\ medication_settings[m].reminder_enabled
    /\ PastSchedule(m)
    /\ ~\E l \in LogsBefore :
          /\ l.medication_id = m
          /\ \/ UtcDate(l.timestamp) = UtcDate(clock)
             \/ LocalDate(l.timestamp, utc_offset)
                  = LocalDate(clock, utc_offset)

\* C14: after a run of check_medication_adherence whose query succeeded,
\* every enabled medication whose reminder was due has had
\* send_medication_reminder, and so send_notification, called for it.
C14_EveryDueReminded ==
    (last.op = "check_medication_adherence" /\ ~last.qfail)
    => \A m \in Meds : DueBefore(m) => m \in Range(last.reminded)

\* C15: unless storage fails, remove_subscriptions leaves exactly the rows
\* whose endpoint is not in the list, each as it was; with the empty list,
\* or with endpoints that are not stored, the table is as before.
C15_RemovesExactlyListed ==
    (last.op = "remove_subscriptions" /\ ~last.dbfail)
    => /\ notification_subscriptions
            = {r \in last.before : r.endpoint \notin Range(last.endpoints)}
       /\ (\A r \in last.before : r.endpoint \notin Range(last.endpoints))
            => notification_subscriptions = last.before

\* C15, its case: of two stored subscriptions one was in the list, next to
\* an endpoint that was never stored
C15_Witness ==
    /\ last.op = "remove_subscriptions"
    /\ ~last.dbfail
    /\ Cardinality(last.before) = 2
    /\ Cardinality(notification_subscriptions) = 1
    /\ NeverStored \in Range(last.endpoints)

\* C16: a storage failure in a subscription store operation is reported:
\* add_subscription returns false, and so does a send_notification whose
\* get_all_subscriptions hit the failure.
C16_StorageFailureReported ==
    /\ (last.op = "add_subscription" /\ last.dbfail) => ~last.ok
    /\ (last.op = "send_notification" /\ webpush_available
        /\ last.inp.loadfail) => ~last.result

\* C17: however the steps of an adherence check fall around a /track
\* request for the same medication, at most one reminder of the medication
\* is emitted once the dose is in the log for the day.
C17_AtMostOneRedundantReminder ==
    \A m \in Meds : check.after[m] <= 1

\* C17, its case: a dose was committed after the check had counted no log
\* for the day and before it went on, and the check has finished
C17_Witness ==
    /\ check.raced
    /\ check.pc = "idle"
    /\ DoseToday(medication_logs, "daily_pill", clock)

\* the loop of thread t has exited, or sleeps until after the last minute
\* that is followed
ExitedOrAsleepAtEnd(t) ==
    \/ thread[t].pc = "done"
    \/ /\ thread[t].pc = "sleep"
       /\ thread[t].wake > StartMinute + MaxMinute

\* C18: once stop_scheduler has been called the flag is eventually false
\* for good and the loop exits (or, at the end of the time followed, sleeps
\* its last minute with the flag false), wherever the call falls among the
\* steps of the thread, the steps before line 296 included.
C18_StopEventuallyExits ==
    stop_called
    ~> [](/\ ~scheduler_running
          /\ \A t \in DOMAIN thread : ExitedOrAsleepAtEnd(t))

\* C19: a send_notification call leaves in the table only rows that were
\* there, each as it was; a row it has deleted is one whose delivery in this
\* call failed with a terminal status; it inserts nothing, and the
\* medication settings and the dose log are as before.
C19_SendOnlyRemoves ==
    [][last'.op = "send_notification"
       => /\ notification_subscriptions' \subseteq notification_subscriptions
          /\ \A r \in notification_subscriptions \ notification_subscriptions' :
                /\ Terminal(last'.inp.outcome[r.endpoint])
                /\ \E i \in 1..Len(last'.attempted) :
                      last'.attempted[i] = r.endpoint
          /\ sub_seq' = sub_seq
          /\ medication_settings' = medication_settings
          /\ medication_logs' = medication_logs
          /\ log_seq' = log_seq]_vars

\* C19, its case: a send over two subscriptions, one delivery failed with a
\* terminal status and the other with a transient one
C19_Witness ==
    /\ last.op = "send_notification"
    /\ Len(last.attempted) = 2
    /\ \E i, j \in 1..2 :
          /\ Terminal(last.inp.outcome[last.attempted[i]])
          /\ last.inp.outcome[last.attempted[j]]
               = [exc |-> "WebPushException", status |-> 500]

OnRequestPath == last.op \in {"send_notification", "add_subscription"}

\* C21: no request handler makes a delivery attempt: webpush() is called
\* for nobody in a call that a request handler has made.
C21_NoDeliveryOnRequestPath ==
    (OnRequestPath /\ last.op = "send_notification")
    => last.attempted = <<>>

\* C22: with the stocks that POST /settings stores never negative, and the
\* /track requests taken one at a time, no medication's current_stock is
\* below 0.
C22_StockNeverNegative ==
    \A m \in Meds :
        medication_settings[m].present
        => medication_settings[m].current_stock >= 0

\* a delivery of the reminder that has just been sent succeeded
ReminderDelivered == last.delivered

\* C23 as claimed: send_medication_reminder appends a reminder_sent marker
\* only if a delivery of the reminder succeeded; none with no subscription
\* to deliver to.
C23_MarkerOnlyIfDelivered ==
    (last.op = "send_medication_reminder" /\ last.marked)
    => ReminderDelivered

\* C23, amended: send_medication_reminder appends a reminder_sent marker
\* only if send_notification returned true, that is if a delivery succeeded
\* or no delivery was attempted because no subscription was loaded; when
\* deliveries were attempted and all failed no marker is written, and the
\* marker is a new row for the medication, dated now.
C23_MarkerOnlyIfSendTrue ==
    last.op = "send_medication_reminder"
    => /\ last.marked => /\ last.success
                         /\ ReminderDelivered \/ last.attempted = <<>>
       /\ (last.attempted # <<>> /\ ~ReminderDelivered) => ~last.marked
       /\ last.marked
            => \E l \in medication_logs :
                  /\ l.id = log_seq
                  /\ l.medication_id = last.m
                  /\ l.notes = "reminder_sent"
                  /\ l.timestamp = clock

\* C23, its case: a marker was written with no subscription stored
C23_Witness ==
    /\ last.op = "send_medication_reminder"
    /\ last.marked
    /\ notification_subscriptions = {}
    /\ ~last.loadfail

\* a reminder_sent marker of m in logs carries the current day, UTC or
\* local
MarkerToday(logs, m) ==
    \E l \in logs :
        /\ l.medication_id = m
        /\ l.notes = "reminder_sent"
        /\ \/ UtcDate(l.timestamp) = UtcDate(clock)
           \/ LocalDate(l.timestamp, utc_offset) = LocalDate(clock, utc_offset)

\* C24: once a reminder_sent marker of a medication is in the log for the
\* day, should_send_reminder is false for it, and an adherence check that
\* finds the marker sends no reminder of it.
C24_MarkerSuppressesLaterChecks ==
    \A m \in Meds :
        /\ MarkerToday(medication_logs, m)
             => \A dbfail \in BOOLEAN :
                   ~should_send_reminder(medication_logs, m,
                        medication_settings[m], clock, utc_offset, dbfail)
        /\ (last.op = "check_medication_adherence"
            /\ MarkerToday(LogsBefore, m))
             => m \notin Range(last.reminded)

\* C24, its case: an adherence check has read an enabled medication, past
\* its schedule, whose marker was written earlier that day
C24_Witness ==
    \E m \in Meds :
        /\ last.op = "check_medication_adherence"
        /\ m \in last.selected
        /\ PastSchedule(m)
        /\ \E l \in medication_logs :
              /\ l.medication_id = m
              /\ l.notes = "reminder_sent"
              /\ l.timestamp < clock
              /\ UtcDate(l.timestamp) = UtcDate(clock)

\* the loop threads that are executing cycles: past line 296 and not yet
\* out of the while of line 299
Cycling == {t \in DOMAIN thread : thread[t].pc \in {"test", "run", "sleep"}}

\* C25 as claimed: whatever start_scheduler and stop_scheduler calls were
\* made, at most one loop thread is executing cycles and each of the two
\* periodic jobs is registered at most once.
C25_OneLoopJobsOnce ==
    /\ Cardinality(Cycling) <= 1
    /\ \A i, j \in DOMAIN jobs : jobs[i].fn = jobs[j].fn => i = j

====
